---- MODULE Spec2Model ----
(***************************************************************************)
(* Model of cvxpy's Gp2Dcp reduction (reductions/gp2dcp/gp2dcp.py) and of  *)
(* its rule set DgpCanonMethods (gp2dcp/atom_canonicalizers/__init__.py).  *)
(*                                                                         *)
(* Python objects are modelled by their identity: problems, constraints,   *)
(* variable nodes, caches and log-space variables are numbered objects.    *)
(* An optional attribute or value is a sequence of length 0 (absent/None)  *)
(* or 1 (present).  np.exp is modelled on the naturals by 2^v, which like  *)
(* exp is injective and has no fixed point.                                *)
(***************************************************************************)
EXTENDS Integers, Sequences, FiniteSets, TLC

\* ---------------------------------------------------------------- bounds
MaxCons == 2        \* longest constraint sequence of a problem
MaxNodes == 2       \* most expression nodes in a problem's traversal
MaxCalls == 2       \* apply calls in one behaviour
MaxVal == 1         \* largest log-space value a solver reports

Problems == {1, 2}
Threads == {1, 2}

\* Constraint objects: problem p owns the objects ConsOf(p).
ConsOf(p) == {(p - 1) * MaxCons + j : j \in 1..MaxCons}
Cons == UNION {ConsOf(p) : p \in Problems}

\* Variable node objects; objects 2k-1 and 2k carry the same identifier k.
VarObjs == {1, 2, 3}
VarIdOf(o) == (o + 1) \div 2
ShapeOf(o) == <<VarIdOf(o)>>

\* A value that may be None.
None == <<>>
Some(v) == <<v>>

\* ------------------------------------------------------- atom registry
\* CANON_METHODS, atom_canonicalizers/__init__.py:36-54.  The name exp_canon
\* is never imported as a function (line 19 imports the name exp from the
\* submodule exp_canon), so at line 40 it denotes the submodule itself.
CANON_METHODS ==
    ( "AddExpression" :> "add_canon" ) @@
    ( "Constant"      :> "constant_canon" ) @@
    ( "DivExpression" :> "div_canon" ) @@
    ( "exp"           :> "exp_canon_module" ) @@
    ( "eye_minus_inv" :> "eye_minus_inv_canon" ) @@
    ( "geo_mean"      :> "geo_mean_canon" ) @@
    ( "log"           :> "log_canon" ) @@
    ( "MulExpression" :> "mulexpression_canon" ) @@
    ( "multiply"      :> "mul_canon" ) @@
    ( "one_minus"     :> "one_minus_canon" ) @@
    ( "pnorm"         :> "pnorm_canon" ) @@
    ( "power"         :> "power_canon" ) @@
    ( "trace"         :> "trace_canon" ) @@
    ( "Variable"      :> "None" ) @@
    ( "maximum"       :> "pwl_maximum_canon" ) @@
    ( "sum_largest"   :> "pwl_sum_largest_canon" )

\* Values of the table that can be called as a rule.
Callable(rule) == rule \notin {"None", "exp_canon_module"}

\* Atom kinds the model's problems are built from: a registered kind, the
\* kind whose entry is not a rule, and kinds absent from the table.
AtomKinds == {"AddExpression", "exp", "cumsum"}

\* DgpCanonMethods.__contains__
DgpContains(key) == key \in DOMAIN CANON_METHODS

\* DgpCanonMethods.__getitem__ : the rule, or the KeyError of the dict.
DgpGetItemLenient(key) ==
    IF key = "Variable" THEN [ok |-> TRUE, rule |-> "variable_canon"]
    ELSE IF key \in DOMAIN CANON_METHODS
         THEN [ok |-> TRUE, rule |-> CANON_METHODS[key]]
         ELSE [ok |-> TRUE, rule |-> "passthrough"]

DgpGetItemNoOverride(key) ==
    IF key \in DOMAIN CANON_METHODS
    THEN [ok |-> TRUE, rule |-> CANON_METHODS[key]]
    ELSE [ok |-> FALSE, rule |-> "KeyError"]

DgpGetItem(key) ==
    IF key = "Variable" THEN [ok |-> TRUE, rule |-> "variable_canon"]
    ELSE IF key \in DOMAIN CANON_METHODS
         THEN [ok |-> TRUE, rule |-> CANON_METHODS[key]]
         ELSE [ok |-> FALSE, rule |-> "KeyError"]

\* ------------------------------------------------------------ problems
VarNode(o) == [kind |-> "Variable", obj |-> o]
AtomNode(k) == [kind |-> k, obj |-> 0]
NodePool == {VarNode(o) : o \in VarObjs} \cup {AtomNode(k) : k \in AtomKinds}

SeqsUpTo(S, n) == UNION {[1..m -> S] : m \in 0..n}

\* The constraint sequences of problem p, up to the naming of its constraint
\* objects: an object occurs for the first time only after all objects of
\* smaller number.  A sequence may hold the same object more than once.
ConstraintSeqs(p) ==
    {s \in SeqsUpTo(ConsOf(p), MaxCons) :
        \A k \in 1..Len(s) :
            \/ s[k] = (p - 1) * MaxCons + 1
            \/ \E j \in 1..(k - 1) : s[j] = s[k] - 1}

\* Problem 1 ranges over every shape within the bounds; problem 2 is a
\* second, independent problem object with one constraint of its own.
ProblemShapes(p) ==
    IF p = 1
    THEN [is_dgp : BOOLEAN,
          _constraints : ConstraintSeqs(p),
          nodes : SeqsUpTo(NodePool, MaxNodes) \ {<<>>}]
    ELSE [is_dgp : {TRUE},
          _constraints : {s \in ConstraintSeqs(p) : Len(s) = 1},
          nodes : {<<VarNode(2), AtomNode("AddExpression")>>}]

\* The operands of a constraint and its default argument list [lhs - rhs].
Lhs(c) == <<"lhs", c>>
Rhs(c) == <<"rhs", c>>
DefaultArgs(c) == << <<"lhs - rhs", c>> >>

\* Original variable objects and identifiers of a problem.
VarObjsOf(shape) ==
    {shape.nodes[k].obj : k \in {j \in 1..Len(shape.nodes) : shape.nodes[j].kind = "Variable"}}
VarIdsOf(shape) == {VarIdOf(o) : o \in VarObjsOf(shape)}

VARIABLES
    prob,            \* problem object -> its shape (never changes)
    overlap,         \* history: an apply started while another ran on the same problem
    operands,        \* constraint._lhs and constraint._rhs
    args,            \* constraint.args
    _old_args,       \* constraint._old_args: None when the attribute is absent
    pstate,          \* problem object -> values of its variables, _value, _status, _solution
    _variables,      \* cache object -> DgpCanonMethods._variables (node object -> log variable)
    numCaches,       \* DgpCanonMethods objects constructed so far
    numLogVars,      \* log-space Variable objects constructed so far
    substituted,     \* cache object -> the (node, result) pairs variable_canon returned
    pc,              \* per call: position in apply
    problem,         \* per call: the argument of apply
    i,               \* per call: loop index
    canon_methods,   \* per call: the local canon_methods (a cache object, 0 before line 69)
    equiv_problem,   \* per call: the problem the rewrite engine is building
    pre_args,        \* per call: args of every constraint when apply was entered
    invoked,         \* per call: the rewrite engine has been invoked
    ret,             \* per call: outcome of the last finished apply
    records,         \* inverse-mapping records returned by apply so far
    inv,             \* outcome of the invert calls since the last apply
    ncalls           \* apply calls started so far

vars == <<prob, overlap, operands, args, _old_args, pstate, _variables, numCaches, numLogVars,
          substituted, pc, problem, i, canon_methods, equiv_problem, pre_args,
          invoked, ret, records, inv, ncalls>>

CacheIds == 1..MaxCalls

EmptyFn == [x \in {} |-> 0]

\* Problem._clear_solution: no values, no value, no status, no solution.
ClearedState(shape) ==
    [values |-> [o \in VarObjsOf(shape) |-> None],
     value |-> None, status |-> None, solution |-> None]

NoCall == [kind |-> "none", error |-> "none"]
NoInvert == [done |-> FALSE, n |-> 0]

Init ==
    /\ prob \in {(1 :> a) @@ (2 :> b) : a \in ProblemShapes(1), b \in ProblemShapes(2)}
    /\ overlap = FALSE
    /\ operands = [c \in Cons |-> [_lhs |-> Lhs(c), _rhs |-> Rhs(c)]]
    /\ args = [c \in Cons |-> DefaultArgs(c)]
    /\ _old_args = [c \in Cons |-> None]
    /\ pstate = [p \in Problems |-> ClearedState(prob[p])]
    /\ _variables = [k \in CacheIds |-> EmptyFn]
    /\ numCaches = 0
    /\ numLogVars = 0
    /\ substituted = [k \in CacheIds |-> {}]
    /\ pc = [t \in Threads |-> "idle"]
    /\ problem = [t \in Threads |-> 1]
    /\ i = [t \in Threads |-> 1]
    /\ canon_methods = [t \in Threads |-> 0]
    /\ equiv_problem = [t \in Threads |-> [nodes |-> <<>>, constraints |-> <<>>]]
    /\ pre_args = [t \in Threads |-> args]
    /\ invoked = [t \in Threads |-> FALSE]
    /\ ret = [t \in Threads |-> NoCall]
    /\ records = {}
    /\ inv = NoInvert
    /\ ncalls = 0

\* ------------------------------------------------- DgpCanonMethods
\* DgpCanonMethods.variable_canon(expr, args) on the cache whose _variables
\* is m; the dict is keyed by the node object expr.  Yields the returned
\* pair and the cache's _variables afterwards.
variable_canon(m, expr, fresh) ==
    IF expr \in DOMAIN m
    THEN [result |-> m[expr], extra |-> <<>>, vars |-> m, minted |-> FALSE]
    ELSE LET log_variable == [obj |-> fresh, id |-> VarIdOf(expr),
                              shape |-> ShapeOf(expr), attributes |-> {}]
         IN [result |-> log_variable, extra |-> <<>>,
             vars |-> (expr :> log_variable) @@ m, minted |-> TRUE]

\* ----------------------------------------------------- Gp2Dcp.apply
\* Gp2Dcp.accepts
acceptsAlways(p) == TRUE

accepts(p) == prob[p].is_dgp

\* An exception leaves apply: the call is over, nothing else runs.
Raise(t, error) ==
    /\ pc' = [pc EXCEPT ![t] = "idle"]
    /\ ret' = [ret EXCEPT ![t] = [kind |-> "raise", error |-> error]]

\* Line 69: canon_methods = DgpCanonMethods(), a new object on every call.
SharedCache == IF numCaches = 0 THEN 1 ELSE numCaches

FreshCache == numCaches + 1

\* Lines 66-69: the discipline check, then the construction of the cache.
ApplyCall(t, p) ==
    /\ pc[t] = "idle"
    /\ ncalls < MaxCalls
    /\ ncalls' = ncalls + 1
    /\ problem' = [problem EXCEPT ![t] = p]
    /\ pre_args' = [pre_args EXCEPT ![t] = args]
    /\ invoked' = [invoked EXCEPT ![t] = FALSE]
    /\ equiv_problem' = [equiv_problem EXCEPT ![t] = [nodes |-> <<>>, constraints |-> <<>>]]
    /\ i' = [i EXCEPT ![t] = 1]
    /\ IF ~accepts(p)
       THEN /\ Raise(t, "ValueError")
            /\ canon_methods' = [canon_methods EXCEPT ![t] = 0]
            /\ UNCHANGED <<numCaches, _variables, substituted>>
       ELSE /\ numCaches' = FreshCache
            /\ canon_methods' = [canon_methods EXCEPT ![t] = FreshCache]
            /\ _variables' = [_variables EXCEPT ![FreshCache] = EmptyFn]
            /\ substituted' = [substituted EXCEPT ![FreshCache] = {}]
            /\ pc' = [pc EXCEPT ![t] = "swap"]
            /\ ret' = [ret EXCEPT ![t] = NoCall]
    /\ inv' = NoInvert
    /\ overlap' = (overlap \/ \E u \in Threads \ {t} : pc[u] # "idle" /\ problem[u] = p)
    /\ UNCHANGED <<prob, operands, args, _old_args, pstate, numLogVars, records>>

ConstraintsOf(t) == prob[problem[t]]._constraints
NodesOf(t) == prob[problem[t]].nodes

\* Line 77: the argument list the swap loop puts on a constraint.
UnswappedArgs(c) == args[c]

SwappedArgs(c) == <<operands[c]._lhs, operands[c]._rhs>>

\* Lines 70-77, one iteration.
Swap(t) ==
    /\ pc[t] = "swap"
    /\ i[t] <= Len(ConstraintsOf(t))
    /\ LET constraint == ConstraintsOf(t)[i[t]] IN
        /\ _old_args' = [_old_args EXCEPT ![constraint] = Some(args[constraint])]
        /\ args' = [args EXCEPT ![constraint] = SwappedArgs(constraint)]
    /\ i' = [i EXCEPT ![t] = i[t] + 1]
    /\ UNCHANGED <<prob, overlap, operands, pstate, _variables, numCaches, numLogVars, substituted,
                   pc, problem, canon_methods, equiv_problem, pre_args, invoked,
                   ret, records, inv, ncalls>>

\* Line 78: the swap loop is over, Canonicalization(canon_methods).apply starts.
EngineCall(t) ==
    /\ pc[t] = "swap"
    /\ i[t] > Len(ConstraintsOf(t))
    /\ pc' = [pc EXCEPT ![t] = "rewrite"]
    /\ i' = [i EXCEPT ![t] = 1]
    /\ invoked' = [invoked EXCEPT ![t] = TRUE]
    /\ UNCHANGED <<prob, overlap, operands, args, _old_args, pstate, _variables, numCaches,
                   numLogVars, substituted, problem, canon_methods,
                   equiv_problem, pre_args, ret, records, inv, ncalls>>

\* The rewrite engine visits one expression node: it looks the node's kind
\* up in the rule set and applies the rule.  A rule other than
\* variable_canon is external and may itself raise.
RewriteNode(t) ==
    /\ pc[t] = "rewrite"
    /\ i[t] <= Len(NodesOf(t))
    /\ LET node == NodesOf(t)[i[t]]
           found == DgpGetItem(node.kind)
           k == canon_methods[t]
       IN
       IF ~found.ok
       THEN /\ Raise(t, "KeyError")
            /\ UNCHANGED <<i, equiv_problem, _variables, numLogVars, substituted>>
       ELSE IF found.rule = "variable_canon"
       THEN LET r == variable_canon(_variables[k], node.obj, numLogVars + 1) IN
            /\ _variables' = [_variables EXCEPT ![k] = r.vars]
            /\ numLogVars' = IF r.minted THEN numLogVars + 1 ELSE numLogVars
            /\ substituted' = [substituted EXCEPT ![k] = @ \cup {<<node.obj, r.result, r.extra>>}]
            /\ equiv_problem' = [equiv_problem EXCEPT ![t].nodes = Append(@, r.result)]
            /\ i' = [i EXCEPT ![t] = i[t] + 1]
            /\ UNCHANGED <<pc, ret>>
       ELSE IF ~Callable(found.rule)
       THEN /\ Raise(t, "TypeError")
            /\ UNCHANGED <<i, equiv_problem, _variables, numLogVars, substituted>>
       ELSE \E raises \in BOOLEAN :
            IF raises
            THEN /\ Raise(t, "RuleError")
                 /\ UNCHANGED <<i, equiv_problem, _variables, numLogVars, substituted>>
            ELSE /\ equiv_problem' = [equiv_problem EXCEPT ![t].nodes =
                                        Append(@, [rule |-> found.rule, of |-> node.kind])]
                 /\ i' = [i EXCEPT ![t] = i[t] + 1]
                 /\ UNCHANGED <<pc, ret, _variables, numLogVars, substituted>>
    /\ UNCHANGED <<prob, overlap, operands, args, _old_args, pstate, numCaches, problem,
                   canon_methods, pre_args, invoked, records, inv, ncalls>>

\* The rewrite engine visits one constraint: it reads constraint.args and
\* builds a new constraint object over the rewritten arguments.
RewriteConstraint(t) ==
    /\ pc[t] = "rewrite"
    /\ i[t] > Len(NodesOf(t))
    /\ i[t] - Len(NodesOf(t)) <= Len(ConstraintsOf(t))
    /\ LET constraint == ConstraintsOf(t)[i[t] - Len(NodesOf(t))] IN
        equiv_problem' = [equiv_problem EXCEPT ![t].constraints =
                            Append(@, [of |-> constraint, args |-> args[constraint]])]
    /\ i' = [i EXCEPT ![t] = i[t] + 1]
    /\ UNCHANGED <<prob, overlap, operands, args, _old_args, pstate, _variables, numCaches,
                   numLogVars, substituted, pc, problem, canon_methods,
                   pre_args, invoked, ret, records, inv, ncalls>>

\* The engine returns (equiv_problem, inverse_data); apply goes on to line 80.
EngineReturn(t) ==
    /\ pc[t] = "rewrite"
    /\ i[t] > Len(NodesOf(t)) + Len(ConstraintsOf(t))
    /\ pc' = [pc EXCEPT ![t] = "restore"]
    /\ i' = [i EXCEPT ![t] = 1]
    /\ UNCHANGED <<prob, overlap, operands, args, _old_args, pstate, _variables, numCaches,
                   numLogVars, substituted, problem, canon_methods,
                   equiv_problem, pre_args, invoked, ret, records, inv, ncalls>>

\* Line 81: the argument list put back on a constraint.
KeptArgs(c) == args[c]

RestoredArgs(c) == _old_args[c][1]

\* Line 82: del constraint._old_args.
DeletedOldArgs(c) == None

\* Lines 80-82, one iteration; reading a missing _old_args raises.
Restore(t) ==
    /\ pc[t] = "restore"
    /\ i[t] <= Len(ConstraintsOf(t))
    /\ LET constraint == ConstraintsOf(t)[i[t]] IN
       IF _old_args[constraint] = None
       THEN /\ Raise(t, "AttributeError")
            /\ UNCHANGED <<args, _old_args, i>>
       ELSE /\ args' = [args EXCEPT ![constraint] = RestoredArgs(constraint)]
            /\ _old_args' = [_old_args EXCEPT ![constraint] = DeletedOldArgs(constraint)]
            /\ i' = [i EXCEPT ![t] = i[t] + 1]
            /\ UNCHANGED <<pc, ret>>
    /\ UNCHANGED <<prob, overlap, operands, pstate, _variables, numCaches, numLogVars, substituted,
                   problem, canon_methods, equiv_problem, pre_args, invoked,
                   records, inv, ncalls>>

\* The generic inverse record of the engine, with the two fields of
\* lines 83-84 attached.
InverseDataNoCache(t) ==
    [id_map |-> VarIdsOf(prob[problem[t]]),
     cons_id_map |-> {ConstraintsOf(t)[j] : j \in 1..Len(ConstraintsOf(t))},
     _problem |-> problem[t],
     _canon_methods |-> 0]

InverseData(t) ==
    [id_map |-> VarIdsOf(prob[problem[t]]),
     cons_id_map |-> {ConstraintsOf(t)[j] : j \in 1..Len(ConstraintsOf(t))},
     _problem |-> problem[t],
     _canon_methods |-> canon_methods[t]]

\* Lines 83-85.
ApplyReturn(t) ==
    /\ pc[t] = "restore"
    /\ i[t] > Len(ConstraintsOf(t))
    /\ pc' = [pc EXCEPT ![t] = "idle"]
    /\ ret' = [ret EXCEPT ![t] = [kind |-> "return",
                                  equiv_problem |-> equiv_problem[t],
                                  inverse_data |-> InverseData(t)]]
    /\ records' = records \cup {InverseData(t)}
    /\ UNCHANGED <<prob, overlap, operands, args, _old_args, pstate, _variables, numCaches,
                   numLogVars, substituted, problem, i, canon_methods,
                   equiv_problem, pre_args, invoked, inv, ncalls>>

\* ----------------------------------------------------- Gp2Dcp.invert
\* np.exp on a value, and on a value that may be None.
Exp(v) == 2 ^ v
ExpOpt(x) == IF x = None THEN None ELSE Some(Exp(x[1]))

\* cvxpy.settings: the statuses, SOLUTION_PRESENT and INF_OR_UNB.
Statuses == {"optimal", "optimal_inaccurate", "infeasible", "unbounded", "solver_error"}
SOLUTION_PRESENT == {"optimal", "optimal_inaccurate"}
INF_OR_UNB == {"infeasible", "unbounded"}

\* Identifier of an auxiliary variable a rewrite rule introduced.
AuxIds == {0}

\* The solutions a solver can hand back for the rewritten problem of an
\* inverse record: values for the log-space variables, for the auxiliary
\* variables and for the constraints, or (when no solution is present)
\* possibly no values at all.
WithAux(primal) == [vid \in DOMAIN primal \cup AuxIds |->
                        IF vid \in DOMAIN primal THEN primal[vid] ELSE MaxVal]

Primals(ids) == {[vid \in ids |-> (b + vid) % (MaxVal + 1)] : b \in 0..MaxVal}

RawSolutions(rec) ==
    [status : SOLUTION_PRESENT, opt_val : {Some(v) : v \in 0..MaxVal},
     primal_vars : {WithAux(f) : f \in Primals(rec.id_map)},
     dual_vars : {[c \in rec.cons_id_map |-> MaxVal]}]
    \cup
    [status : Statuses \ SOLUTION_PRESENT, opt_val : {Some(v) : v \in 0..MaxVal},
     primal_vars : {WithAux([vid \in rec.id_map |-> MaxVal])},
     dual_vars : {[c \in rec.cons_id_map |-> MaxVal]}]
    \cup
    [status : Statuses \ SOLUTION_PRESENT, opt_val : {Some(v) : v \in 0..MaxVal},
     primal_vars : {EmptyFn}, dual_vars : {EmptyFn}]

\* Canonicalization.invert: the primal values of the original identifiers
\* and the dual values of the original constraints; status and optimal
\* value as the solver gave them.
GenericInvert(solution, inverse_data) ==
    [status |-> solution.status,
     opt_val |-> solution.opt_val,
     primal_vars |-> [vid \in inverse_data.id_map \cap DOMAIN solution.primal_vars
                        |-> solution.primal_vars[vid]],
     dual_vars |-> [c \in inverse_data.cons_id_map \cap DOMAIN solution.dual_vars
                        |-> solution.dual_vars[c]]]

\* Problem.unpack on a solution with a solution present: every variable of
\* the problem takes the primal value of its identifier, and the problem
\* keeps the value, the status and the solution.
Unpack(shape, solution) ==
    [values |-> [o \in VarObjsOf(shape) |-> Some(solution.primal_vars[VarIdOf(o)])],
     value |-> solution.opt_val,
     status |-> Some(solution.status),
     solution |-> Some(solution)]

\* Problem.objective.value: the objective over the current values of the
\* problem's variables (here the sum over its variable nodes), None when a
\* variable has no value.
RECURSIVE SumValues(_, _)
SumValues(nodes, values) ==
    IF nodes = <<>> THEN 0
    ELSE (IF Head(nodes).kind = "Variable" THEN values[Head(nodes).obj][1] ELSE 0)
         + SumValues(Tail(nodes), values)

ObjectiveValue(shape, state) ==
    IF \E o \in VarObjsOf(shape) : state.values[o] = None
    THEN None
    ELSE Some(SumValues(shape.nodes, state.values))

\* Lines 89-90.
ExpPrimalTwice(solution) ==
    [solution EXCEPT !.primal_vars = [vid \in DOMAIN @ |-> Exp(Exp(@[vid]))]]

ExpPrimalAndDual(solution) ==
    [solution EXCEPT !.primal_vars = [vid \in DOMAIN @ |-> Exp(@[vid])],
                     !.dual_vars = [c \in DOMAIN @ |-> Exp(@[c])]]

ExpPrimal(solution) ==
    [solution EXCEPT !.primal_vars = [vid \in DOMAIN @ |-> Exp(@[vid])]]

\* Lines 94-97: the state of the original problem when invert returns.
StateKept(shape, state, solution) == Unpack(shape, solution)

StateAfterPresent(shape, state, solution) == ClearedState(shape)

\* Lines 94-96: the optimal value of a solution-present solution.
OptValFromSolver(shape, state, solution) == ExpOpt(solution.opt_val)

OptValPresent(shape, state, solution) ==
    ObjectiveValue(shape, Unpack(shape, solution))

\* Line 99.
OptValInfOrUnbRaw(solution) == solution.opt_val

OptValInfOrUnb(solution) == ExpOpt(solution.opt_val)

\* Lines 93-101 on the exponentiated solution: the returned solution and
\* the state of the original problem afterwards.
InvertBranchesElseExp(shape, state, solution) ==
    IF solution.status \in SOLUTION_PRESENT
    THEN [solution |-> [solution EXCEPT !.opt_val = OptValPresent(shape, state, solution)],
          state |-> StateAfterPresent(shape, state, solution),
          unpacked |-> TRUE]
    ELSE [solution |-> [solution EXCEPT !.opt_val = OptValInfOrUnb(solution)],
          state |-> state,
          unpacked |-> FALSE]

InvertBranches(shape, state, solution) ==
    IF solution.status \in SOLUTION_PRESENT
    THEN [solution |-> [solution EXCEPT !.opt_val = OptValPresent(shape, state, solution)],
          state |-> StateAfterPresent(shape, state, solution),
          unpacked |-> TRUE]
    ELSE IF solution.status \in INF_OR_UNB
    THEN [solution |-> [solution EXCEPT !.opt_val = OptValInfOrUnb(solution)],
          state |-> state,
          unpacked |-> FALSE]
    ELSE [solution |-> solution, state |-> state, unpacked |-> FALSE]

\* Gp2Dcp.invert(solution, inverse_data).  After an apply a caller inverts
\* a solution, and may invert the same solution once more.
Invert(t, solution, inverse_data) ==
    /\ pc[t] = "idle"
    /\ inv.done => /\ inv.n = 1
                   /\ inv.raw = solution
                   /\ inv.inverse_data = inverse_data
    /\ LET p == inverse_data._problem
           generic == GenericInvert(solution, inverse_data)
           out == InvertBranches(prob[p], pstate[p], ExpPrimal(generic))
       IN
        /\ pstate' = [pstate EXCEPT ![p] = out.state]
        /\ inv' = [done |-> TRUE, n |-> IF inv.done THEN 2 ELSE 1, inverse_data |-> inverse_data, raw |-> solution,
                   generic |-> generic, before |-> pstate[p],
                   unpacked |-> out.unpacked, solution |-> out.solution]
    /\ UNCHANGED <<prob, overlap, operands, args, _old_args, _variables, numCaches, numLogVars,
                   substituted, pc, problem, i, canon_methods, equiv_problem,
                   pre_args, invoked, ret, records, ncalls>>

\* ------------------------------------------------------ specification
\* The engine is single-threaded: one caller makes its calls one after the
\* other, here on problem 1.
Next ==
    \/ ApplyCall(1, 1)
    \/ Swap(1)
    \/ EngineCall(1)
    \/ RewriteNode(1)
    \/ RewriteConstraint(1)
    \/ EngineReturn(1)
    \/ Restore(1)
    \/ ApplyReturn(1)
    \/ \E inverse_data \in records : \E solution \in RawSolutions(inverse_data) :
            Invert(1, solution, inverse_data)

Spec == Init /\ [][Next]_vars

\* Two callers of one reduction instance, each running one apply call on
\* either problem; the steps of the two calls interleave freely.  The callers
\* are interchangeable, so caller 1 is the one that starts first.
NextConc ==
    \E t \in Threads :
        \/ /\ ret[t].kind = "none"
           /\ t = 2 => (pc[1] # "idle" \/ ret[1].kind # "none")
           /\ \E p \in Problems : ApplyCall(t, p)
        \/ Swap(t)
        \/ EngineCall(t)
        \/ RewriteNode(t)
        \/ RewriteConstraint(t)
        \/ EngineReturn(t)
        \/ Restore(t)
        \/ ApplyReturn(t)

\* The problems of the two callers hold registered atoms with a rule (which
\* may still raise) and variables out of two objects, one of them a variable
\* of both problems.
InitConc ==
    /\ Init
    /\ \A j \in 1..Len(prob[1].nodes) :
          prob[1].nodes[j] \in {VarNode(1), VarNode(2), AtomNode("AddExpression")}

SpecConc == InitConc /\ [][NextConc]_vars

TypeOK ==
    /\ \A c \in Cons : Len(_old_args[c]) <= 1
    /\ numCaches \in 0..MaxCalls
    /\ ncalls \in 0..MaxCalls
    /\ \A t \in Threads : pc[t] \in {"idle", "swap", "rewrite", "restore"}

\* ------------------------------------------------------------ claims
ConsSetOf(p) == {prob[p]._constraints[j] : j \in 1..Len(prob[p]._constraints)}
Finished(t) == pc[t] = "idle" /\ ret[t].kind # "none"
Failed(t) == pc[t] = "idle" /\ ret[t].kind = "raise"
Succeeded(t) == pc[t] = "idle" /\ ret[t].kind = "return"
EngineErrors == {"KeyError", "TypeError", "RuleError"}

\* C1: when the generic rewrite raises during apply, every constraint of the
\* original problem has, when apply exits, the argument list it had before
\* the call.
C1_RestoredAfterEngineError ==
    \A t \in Threads :
        (Failed(t) /\ ret[t].error \in EngineErrors) =>
            \A c \in ConsSetOf(problem[t]) : args[c] = pre_args[t][c]

\* C2: after a successful apply, also one that follows other apply calls,
\* every constraint of the original problem has its pre-call argument list,
\* its lhs/rhs pair, and no saved-argument field.
C2_NoSideEffectAfterSuccess ==
    \A t \in Threads :
        Succeeded(t) =>
            \A c \in ConsSetOf(problem[t]) :
                /\ args[c] = pre_args[t][c]
                /\ operands[c] = [_lhs |-> Lhs(c), _rhs |-> Rhs(c)]
                /\ _old_args[c] = None

C2_Witness ==
    /\ Succeeded(1)
    /\ ncalls >= 2
    /\ Cardinality(ConsSetOf(problem[1])) = 2
    /\ \A c \in ConsSetOf(problem[1]) : args[c] = DefaultArgs(c)
    /\ \E r \in records : r._problem = problem[1] /\ r._canon_methods < canon_methods[1]

\* C3: apply fails with the discipline-violation error exactly when the
\* problem's is_dgp check is false, and then before any mutation: no argument
\* list swapped, the engine not invoked, nothing returned.
C3_DisciplineViolationEager ==
    \A t \in Threads :
        /\ Finished(t) =>
              ((ret[t].kind = "raise" /\ ret[t].error = "ValueError")
                  <=> ~prob[problem[t]].is_dgp)
        /\ pc[t] # "idle" => prob[problem[t]].is_dgp
        /\ (Failed(t) /\ ret[t].error = "ValueError") =>
              /\ args = pre_args[t]
              /\ ~invoked[t]
              /\ canon_methods[t] = 0
              /\ equiv_problem[t] = [nodes |-> <<>>, constraints |-> <<>>]

C3_Witness ==
    /\ Failed(1)
    /\ ret[1].error = "ValueError"
    /\ prob[problem[1]]._constraints # <<>>
    /\ ~prob[problem[1]].is_dgp

\* C4: a problem with a node whose kind is absent from the registry makes
\* apply fail: the lookup of that kind fails, the kind is not reported as
\* contained, no rewritten problem and no inverse record come back, and no
\* node of such a kind is ever passed through into the rewritten problem.
Unregistered(nodes) ==
    {j \in 1..Len(nodes) :
        nodes[j].kind # "Variable" /\ nodes[j].kind \notin DOMAIN CANON_METHODS}

C4_UnsupportedAtomFailsClosed ==
    \A t \in Threads :
        LET nodes == prob[problem[t]].nodes IN
        /\ \A j \in Unregistered(nodes) :
              ~DgpContains(nodes[j].kind) /\ ~DgpGetItem(nodes[j].kind).ok
        /\ Len(equiv_problem[t].nodes) < Len(nodes) + 1
        /\ \A j \in Unregistered(nodes) : Len(equiv_problem[t].nodes) < j
        /\ (Finished(t) /\ Unregistered(nodes) # {}) =>
              /\ ret[t].kind = "raise"
              /\ \A r \in records : r._problem # problem[t]
        /\ (Failed(t) /\ ret[t].error = "KeyError") =>
              /\ i[t] \in Unregistered(nodes)
              /\ \A r \in records : r._problem # problem[t]

C4_Witness ==
    /\ Failed(1)
    /\ ret[1].error = "KeyError"
    /\ i[1] = 2
    /\ Len(equiv_problem[1].nodes) = 1

\* C5: within one cache, two substitute calls whose variable nodes carry the
\* same identifier return the very same log-space variable object, whether
\* the nodes are one object or two.
C5_IdentitySharing ==
    \A k \in CacheIds :
        \A a \in substituted[k] : \A b \in substituted[k] :
            VarIdOf(a[1]) = VarIdOf(b[1]) => a[2] = b[2]

InvProblem == inv.inverse_data._problem
InvShape == prob[InvProblem]

\* C6: for an infeasible or unbounded status with raw log-space optimal value
\* v, invert reports exp(v) and recovers no variables: nothing is installed
\* in the original problem, which is left as it was.
C6_InfOrUnbExponentiatesOptVal ==
    (inv.done /\ inv.raw.status \in INF_OR_UNB) =>
        /\ inv.solution.status = inv.raw.status
        /\ inv.solution.opt_val = Some(2 ^ inv.raw.opt_val[1])
        /\ ~inv.unpacked
        /\ pstate[InvProblem] = inv.before
        /\ \A o \in VarObjsOf(InvShape) : pstate[InvProblem].values[o] = None

C6_Witness ==
    /\ inv.done
    /\ inv.raw.status = "unbounded"
    /\ inv.raw.opt_val = Some(MaxVal)
    /\ inv.solution.opt_val # inv.raw.opt_val
    /\ VarObjsOf(InvShape) # {}

\* C7: for an optimal or optimal-inaccurate status the optimal value invert
\* returns is the original problem's objective at the exponentiated primal
\* values, read while those values are installed.
ObjectiveAtExp(shape, primal) ==
    SumValues(shape.nodes, [o \in VarObjsOf(shape) |-> Some(2 ^ primal[VarIdOf(o)])])

C7_OptValIsOriginalObjective ==
    (inv.done /\ inv.raw.status \in SOLUTION_PRESENT) =>
        /\ inv.unpacked
        /\ inv.solution.opt_val = Some(ObjectiveAtExp(InvShape, inv.generic.primal_vars))

C7_Witness ==
    /\ inv.done
    /\ inv.raw.status = "optimal_inaccurate"
    /\ Cardinality(VarIdsOf(InvShape)) = 2
    /\ inv.solution.opt_val # inv.raw.opt_val
    /\ inv.solution.opt_val # Some(2 ^ inv.raw.opt_val[1])

\* C8: after every invert call the original problem holds no cached
\* solution (no variable value, value, status or solution), while the
\* returned solution still carries its primal values and optimal value.
C8_NoCachedSolutionAfterInvert ==
    /\ \A p \in Problems : pstate[p] = ClearedState(prob[p])
    /\ (inv.done /\ inv.unpacked) =>
          /\ DOMAIN inv.solution.primal_vars = VarIdsOf(InvShape)
          /\ inv.solution.opt_val # None

C8_Witness ==
    /\ inv.done
    /\ inv.unpacked
    /\ inv.raw.status = "optimal"
    /\ VarObjsOf(InvShape) # {}
    /\ inv.n = 2
    /\ inv.before = ClearedState(InvShape)

\* C9: invert applies the generic inverse step and then replaces every primal
\* value by its exponential, once per identifier and for every status; the
\* identifiers of the primal map are those the generic step produced.
C9_PrimalExponentiatedOnce ==
    inv.done =>
        /\ inv.generic = GenericInvert(inv.raw, inv.inverse_data)
        /\ DOMAIN inv.solution.primal_vars = DOMAIN inv.generic.primal_vars
        /\ DOMAIN inv.solution.primal_vars \subseteq inv.inverse_data.id_map
        /\ \A vid \in DOMAIN inv.generic.primal_vars :
              inv.solution.primal_vars[vid] = 2 ^ inv.raw.primal_vars[vid]

C9_Witness ==
    /\ inv.done
    /\ inv.raw.status = "solver_error"
    /\ Cardinality(DOMAIN inv.solution.primal_vars) = 2
    /\ DOMAIN inv.raw.primal_vars # DOMAIN inv.solution.primal_vars

\* C10: for every status the dual values of the solution invert returns are
\* the dual values the generic inverse step produced.
C10_DualsPassedThrough ==
    inv.done =>
        /\ inv.solution.dual_vars = inv.generic.dual_vars
        /\ \A c \in DOMAIN inv.raw.dual_vars \cap inv.inverse_data.cons_id_map :
              /\ c \in DOMAIN inv.solution.dual_vars
              /\ inv.solution.dual_vars[c] = inv.raw.dual_vars[c]

C10_Witness ==
    /\ inv.done
    /\ inv.raw.status = "optimal"
    /\ DOMAIN inv.solution.dual_vars # {}
    /\ \A c \in DOMAIN inv.solution.dual_vars : inv.solution.dual_vars[c] = MaxVal

\* C11: for a status that is neither solution-present nor infeasible or
\* unbounded, invert returns the generic inverse step's solution with its
\* status and optimal value unchanged and does not touch the original problem.
C11_OtherStatusUnchanged ==
    (inv.done /\ inv.raw.status \notin (SOLUTION_PRESENT \cup INF_OR_UNB)) =>
        /\ inv.solution.status = inv.generic.status
        /\ inv.solution.opt_val = inv.generic.opt_val
        /\ inv.solution.opt_val = inv.raw.opt_val
        /\ inv.solution.dual_vars = inv.generic.dual_vars
        /\ DOMAIN inv.solution.primal_vars = DOMAIN inv.generic.primal_vars
        /\ ~inv.unpacked
        /\ pstate[InvProblem] = inv.before

C11_Witness ==
    /\ inv.done
    /\ inv.raw.status = "solver_error"
    /\ inv.raw.opt_val = Some(MaxVal)
    /\ inv.solution.opt_val = Some(MaxVal)
    /\ DOMAIN inv.solution.primal_vars # {}

Range(f) == {f[x] : x \in DOMAIN f}

\* C12: in every state of a cache the mapping is a bijection between the
\* distinct variable identifiers seen so far and the log-space variables
\* minted so far: one entry per identifier, each log-space variable with the
\* identifier and shape of its original and no positivity attribute, distinct
\* identifiers on distinct variables, and substitute returns no extra
\* constraints.
C12_CacheIsBijectionOnIdentifiers ==
    \A k \in CacheIds :
        LET m == _variables[k] IN
        /\ Cardinality(DOMAIN m) = Cardinality({VarIdOf(o) : o \in DOMAIN m})
        /\ Cardinality(Range(m)) = Cardinality({VarIdOf(o) : o \in DOMAIN m})
        /\ \A o \in DOMAIN m :
              /\ m[o].id = VarIdOf(o)
              /\ m[o].shape = ShapeOf(o)
              /\ m[o].attributes = {}
        /\ \A a \in DOMAIN m : \A b \in DOMAIN m :
              VarIdOf(a) # VarIdOf(b) => m[a].obj # m[b].obj
        /\ \A r \in substituted[k] : r[3] = <<>> /\ r[2] \in Range(m)

\* C13: in every cache state the lookup of the variable kind gives the
\* cache's substitution rule and the kind is reported as contained; the
\* lookup of any other registered kind gives the base registry's entry,
\* whatever the cache holds and however many substitutions were made.
C13_CacheOverridesVariableOnly ==
    /\ DgpContains("Variable")
    /\ DgpGetItem("Variable") = [ok |-> TRUE, rule |-> "variable_canon"]
    /\ \A key \in DOMAIN CANON_METHODS \ {"Variable"} :
          DgpContains(key) /\ DgpGetItem(key) = [ok |-> TRUE, rule |-> CANON_METHODS[key]]
    /\ \A t \in Threads :
          \A j \in 1..Len(equiv_problem[t].nodes) :
              LET node == prob[problem[t]].nodes[j]
                  out == equiv_problem[t].nodes[j]
              IN IF node.kind = "Variable"
                 THEN /\ node.obj \in DOMAIN _variables[canon_methods[t]]
                      /\ out = _variables[canon_methods[t]][node.obj]
                 ELSE out = [rule |-> CANON_METHODS[node.kind], of |-> node.kind]

C13_Witness ==
    /\ pc[1] = "rewrite"
    /\ Len(equiv_problem[1].nodes) = 2
    /\ prob[problem[1]].nodes[1].kind = "Variable"
    /\ prob[problem[1]].nodes[2].kind = "AddExpression"
    /\ equiv_problem[1].nodes[2] = [rule |-> "add_canon", of |-> "AddExpression"]
    /\ Cardinality(DOMAIN _variables[canon_methods[1]]) = 1
    /\ ncalls = 2

\* C15: the record a successful apply returns references the problem passed
\* to that apply and the cache used in it, and a step of invert leaves the
\* records, their two references and every cache mapping as they were.
C15_RecordReferencesAndReadOnly ==
    /\ [](\A t \in Threads :
            Succeeded(t) =>
                /\ ret[t].inverse_data._problem = problem[t]
                /\ ret[t].inverse_data._canon_methods = canon_methods[t]
                /\ ret[t].inverse_data._canon_methods \in 1..numCaches
                /\ ret[t].inverse_data \in records)
    /\ [][(inv' # inv /\ inv'.done) =>
            /\ records' = records
            /\ _variables' = _variables
            /\ inv'.inverse_data \in records'
            /\ canon_methods' = canon_methods]_vars

C15_Witness ==
    /\ inv.done
    /\ Succeeded(1)
    /\ inv.inverse_data = ret[1].inverse_data
    /\ inv.inverse_data._canon_methods = 2
    /\ _variables[2] # EmptyFn

C18_SavedListIsPreCallList ==
    \A t \in Threads :
        /\ pc[t] = "rewrite" =>
              \A c \in ConsSetOf(problem[t]) : _old_args[c] = Some(pre_args[t][c])
        /\ ~(ret[t].kind = "raise" /\ ret[t].error = "AttributeError")

\* The kinds the registry is to support, each with the rule of its own kind.
OwnRule ==
    ( "AddExpression" :> "add_canon" ) @@
    ( "MulExpression" :> "mulexpression_canon" ) @@
    ( "DivExpression" :> "div_canon" ) @@
    ( "multiply"      :> "mul_canon" ) @@
    ( "exp"           :> "exp_canon" ) @@
    ( "log"           :> "log_canon" ) @@
    ( "power"         :> "power_canon" ) @@
    ( "geo_mean"      :> "geo_mean_canon" ) @@
    ( "one_minus"     :> "one_minus_canon" ) @@
    ( "eye_minus_inv" :> "eye_minus_inv_canon" ) @@
    ( "pnorm"         :> "pnorm_canon" ) @@
    ( "trace"         :> "trace_canon" ) @@
    ( "Constant"      :> "constant_canon" ) @@
    ( "maximum"       :> "pwl_maximum_canon" ) @@
    ( "sum_largest"   :> "pwl_sum_largest_canon" )

\* C19: the registry behind the rule set of every apply call binds every
\* supported kind to the rule of that kind, the exponential kind to the
\* exponential rule in particular, and has no entry for sum_smallest, minimum
\* or cumsum; so no apply fails on a registered value that is not a rule.
C19_RegistryBindsOwnRules ==
    \A t \in Threads :
        /\ canon_methods[t] # 0 =>
              /\ \A kind \in DOMAIN OwnRule :
                    /\ kind \in DOMAIN CANON_METHODS
                    /\ CANON_METHODS[kind] = OwnRule[kind]
                    /\ Callable(CANON_METHODS[kind])
              /\ DOMAIN CANON_METHODS \cap {"sum_smallest", "minimum", "cumsum"} = {}
              /\ DgpGetItem("exp") = [ok |-> TRUE, rule |-> "exp_canon"]
        /\ ~(ret[t].kind = "raise" /\ ret[t].error = "TypeError")

LogObjs(k) == {v.obj : v \in Range(_variables[k])}

\* C14: every apply call has a cache of its own, empty when the call starts;
\* a log-space variable returned by substitute in a call was minted in that
\* call's cache and in no other, and no step changes the cache that the
\* inverse record of an earlier call references.
C14_CachePerCall ==
    /\ [](/\ \A k1 \in CacheIds : \A k2 \in CacheIds \ {k1} :
                LogObjs(k1) \cap LogObjs(k2) = {}
          /\ \A k \in CacheIds : \A r \in substituted[k] :
                r[2] \in Range(_variables[k])
          /\ \A t \in Threads :
                /\ \A j \in 1..Len(equiv_problem[t].nodes) :
                      NodesOf(t)[j].kind = "Variable" =>
                          equiv_problem[t].nodes[j] \in Range(_variables[canon_methods[t]])
                /\ pc[t] = "swap" => _variables[canon_methods[t]] = EmptyFn
                /\ pc[t] # "idle" =>
                      /\ \A rec \in records : rec._canon_methods # canon_methods[t]
                      /\ \A u \in Threads \ {t} :
                            pc[u] # "idle" => canon_methods[u] # canon_methods[t])
    /\ [][\A rec \in records :
            _variables'[rec._canon_methods] = _variables[rec._canon_methods]]_vars

C14_Witness ==
    \E r1 \in records : \E r2 \in records :
        /\ r1._problem = 1
        /\ r2._problem = 2
        /\ r1._canon_methods # r2._canon_methods
        /\ 2 \in DOMAIN _variables[r1._canon_methods]
        /\ 2 \in DOMAIN _variables[r2._canon_methods]
        /\ _variables[r1._canon_methods][2].obj # _variables[r2._canon_methods][2].obj

\* C17: apply calls that never overlap on one problem object, serialized
\* calls and calls on independent problems alike, leave every constraint its
\* argument list from before the calls, and none of them fails in the restore
\* loop.
C17_OnlyOverlappingCallsLeaveArgsChanged ==
    ((\A t \in Threads : pc[t] = "idle") /\ ~overlap) =>
        /\ \A c \in Cons : args[c] = DefaultArgs(c)
        /\ \A t \in Threads : ~(ret[t].kind = "raise" /\ ret[t].error = "AttributeError")

====
